---- MODULE Spec2Model ----
(***************************************************************************)
(* Model of the blog application (src/application.py, src/forms.py).       *)
(* State: the three tables (user, blogpost, comments), the Flask-Login     *)
(* session of each browser, the register requests that have passed the     *)
(* e-mail lookup and not yet committed, and the last response produced.    *)
(***************************************************************************)
EXTENDS Integers, Sequences, FiniteSets, TLC

VARIABLES users, posts, comments, session, pending, response

vars == <<users, posts, comments, session, pending, response>>

(***************************************************************************)
(* Bounds of the model.                                                    *)
(***************************************************************************)
MaxPosts == 2
MaxComments == 1

\* Browsers, each with its own session cookie.
Clients == {"c1", "c2"}

\* Python's None: the result of a query that matches no row, and the user id
\* of a session that holds none.
None == [id |-> 0]

\* The identity Flask-Login gives a request without a logged-in user.
AnonymousUser == [id |-> 0, is_anonymous |-> TRUE]

(***************************************************************************)
(* Request inputs.                                                         *)
(***************************************************************************)
Methods == {"GET", "POST"}
Emails == {"a@x.com", "b@x.com"}
Passwords == {"longenough1", "wrongpass99", "short"}
Names == {"Ann", "Bob"}
Salts == {"s1"}
Titles == {"Hello World", "T1"}
Subtitles == {"sub"}
ImgUrls == {"http://img/1"}
Dates == {"November 01, 2026", "November 02, 2026"}

\* Elements of submitted rich text: tag, attributes, and whether it has content.
Element(t, a, c) == [tag |-> t, attrs |-> a, content |-> c]
Script == Element("script", {}, TRUE)
ParaHi == Element("p", {}, TRUE)
ParaEmpty == Element("p", {}, FALSE)
LinkOnclick == Element("a", {"href", "onclick"}, FALSE)
Link == Element("a", {"href"}, FALSE)
RawBodies == {<<Script, ParaHi>>, <<LinkOnclick, ParaEmpty>>}
\* A submitted field left empty (fails InputRequired).
Empty == <<>>

(***************************************************************************)
(* html_sanitizer as configured in application.py                          *)
(***************************************************************************)
Tags == {"a", "h1", "h2", "h3", "strong", "em", "p", "ul", "ol",
         "li", "br", "sub", "sup", "hr", "img"}

Attributes(tag) ==
    CASE tag = "a" -> {"href", "name", "target", "title", "id", "rel"}
      [] tag = "img" -> {"alt", "src"}
      [] OTHER -> {}

EmptyTags == {"hr", "a", "br", "img"}

\* A sanitizer that drops no element.
Kept_all(e) == TRUE

\* An element survives when its tag is allowed and it is not an empty
\* element of a tag that may not be empty.
Kept(e) == e.tag \in Tags /\ (e.content \/ e.tag \in EmptyTags)

RECURSIVE sanitize(_)
sanitize(html) ==
    IF html = <<>> THEN <<>>
    ELSE LET e == Head(html)
             rest == sanitize(Tail(html))
         IN IF Kept(e)
            THEN <<[e EXCEPT !.attrs = e.attrs \cap Attributes(e.tag)]>> \o rest
            ELSE rest

(***************************************************************************)
(* werkzeug.security                                                       *)
(***************************************************************************)
generate_password_hash(password, salt) ==
    [method |-> "pbkdf2", salt |-> salt, digest |-> <<salt, password>>]

\* A check that accepts every password.
check_password_hash_any(pwhash, password) == TRUE

check_password_hash(pwhash, password) ==
    pwhash.digest = <<pwhash.salt, password>>

(***************************************************************************)
(* forms.py                                                                *)
(***************************************************************************)
MinLength == 1
MaxLength == 250
MinPassword == 8
MaxPassword == 20

RegisterFormValid(form) ==
    /\ form.email # ""
    /\ Len(form.password) >= MinPassword /\ Len(form.password) <= MaxPassword
    /\ Len(form.name) >= MinLength /\ Len(form.name) <= MaxLength

LoginFormValid(form) == form.email # "" /\ form.password # ""

PostFormValid(form) ==
    /\ Len(form.title) >= MinLength /\ Len(form.title) <= MaxLength
    /\ Len(form.subtitle) >= MinLength /\ Len(form.subtitle) <= MaxLength
    /\ Len(form.img_url) >= MinLength /\ Len(form.img_url) <= MaxLength
    /\ form.body # Empty

CommentFormValid(form) == form.comment # Empty

RegisterForms == [email : Emails, password : Passwords, name : Names]
LoginForms == [email : Emails, password : Passwords]
PostForms(bodies) ==
    [title : Titles, subtitle : Subtitles, img_url : ImgUrls, body : bodies]
CommentForms == [comment : RawBodies \cup {Empty}]

\* validate_on_submit: the request is a POST and the form validates.
validate_on_submit(method, valid) == method = "POST" /\ valid

(***************************************************************************)
(* Tables                                                                  *)
(***************************************************************************)
Ids(table) == {row.id : row \in table}

\* A primary key that counts from 0.
NextId_from_zero(table) ==
    IF table = {} THEN 0
    ELSE (CHOOSE i \in Ids(table) : \A j \in Ids(table) : j <= i) + 1

\* The next value of an integer primary key.
NextId(table) ==
    IF table = {} THEN 1
    ELSE (CHOOSE i \in Ids(table) : \A j \in Ids(table) : j <= i) + 1

\* select(...).where(...).scalar()
ById(table, id) ==
    IF id \in Ids(table) THEN CHOOSE row \in table : row.id = id ELSE None

UserByEmail(email) ==
    IF \E u \in users : u.email = email
    THEN CHOOSE u \in users : u.email = email
    ELSE None

\* Flask-Login: the user whose id the session holds, or the anonymous user.
load_user(user_id) == ById(users, user_id)

current_user(c) ==
    IF load_user(session[c]) = None THEN AnonymousUser ELSE load_user(session[c])

is_anonymous(u) == u = AnonymousUser

\* is_authenticated answering TRUE for the anonymous user too.
is_authenticated_always(u) == TRUE

is_authenticated(u) == u # AnonymousUser

\* A response: the browser and route it answers, its kind, the message
\* flashed (or the exception raised), and for a redirect to show_post the
\* post id of the target.
Resp(c, op, status, flash) ==
    [client |-> c, op |-> op, status |-> status, flash |-> flash, post_id |-> 0]

RedirectToPost(c, op, post_id) ==
    [client |-> c, op |-> op, status |-> "redirect_post", flash |-> "",
     post_id |-> post_id]

Init ==
    /\ users = {}
    /\ posts = {}
    /\ comments = {}
    /\ session = [c \in Clients |-> None.id]
    /\ pending = [c \in Clients |-> None]
    /\ response = Resp("c1", "none", "none", "")

(***************************************************************************)
(* register: the e-mail lookup, then (in a later step, so that requests    *)
(* of two browsers interleave) the insert, commit and login_user.          *)
(***************************************************************************)
RegisterLookup(c, method, form) ==
    /\ pending[c] = None
    /\ IF ~validate_on_submit(method, RegisterFormValid(form))
       THEN /\ response' = Resp(c, "register", "render", "")
            /\ UNCHANGED pending
       ELSE IF UserByEmail(form.email) # None
       THEN /\ response' = Resp(c, "register", "redirect_login", "already signed up")
            /\ UNCHANGED pending
       ELSE /\ \E salt \in Salts :
                 pending' = [pending EXCEPT ![c] =
                     [email |-> form.email,
                      password |-> generate_password_hash(form.password, salt),
                      name |-> form.name]]
            /\ UNCHANGED response
    /\ UNCHANGED <<users, posts, comments, session>>

\* user.email declared without unique=True: the commit accepts any row.
EmailUnique_unconstrained(new_user) == TRUE

\* The unique constraint on user.email, checked by the database at commit.
EmailUnique(new_user) == \A u \in users : u.email # new_user.email

RegisterCommit(c) ==
    /\ pending[c] # None
    /\ pending' = [pending EXCEPT ![c] = None]
    /\ IF EmailUnique(pending[c])
       THEN /\ users' = users \cup
                 {[id |-> NextId(users), email |-> pending[c].email,
                   password |-> pending[c].password, name |-> pending[c].name]}
            /\ session' = [session EXCEPT ![c] = NextId(users)]
            /\ response' = Resp(c, "register", "redirect_home", "")
       ELSE /\ response' = Resp(c, "register", "fault", "IntegrityError")
            /\ UNCHANGED <<users, session>>
    /\ UNCHANGED <<posts, comments>>

login(c, method, form) ==
    /\ pending[c] = None
    /\ LET user == UserByEmail(form.email) IN
       IF ~validate_on_submit(method, LoginFormValid(form))
       THEN /\ response' = Resp(c, "login", "render", "")
            /\ UNCHANGED session
       ELSE IF user = None
       THEN /\ response' = Resp(c, "login", "redirect_login", "email does not exist")
            /\ UNCHANGED session
       ELSE IF ~check_password_hash(user.password, form.password)
       THEN /\ response' = Resp(c, "login", "redirect_login", "password incorrect")
            /\ UNCHANGED session
       ELSE /\ session' = [session EXCEPT ![c] = user.id]
            /\ response' = Resp(c, "login", "redirect_home", "")
    /\ UNCHANGED <<users, posts, comments, pending>>

\* login_required without a login view answers 401.
logout(c) ==
    /\ pending[c] = None
    /\ IF ~is_authenticated(current_user(c))
       THEN /\ response' = Resp(c, "logout", "unauthorized", "")
            /\ UNCHANGED session
       ELSE /\ session' = [session EXCEPT ![c] = None.id]
            /\ response' = Resp(c, "logout", "redirect_home", "")
    /\ UNCHANGED <<users, posts, comments, pending>>

(***************************************************************************)
(* Posts and comments                                                      *)
(***************************************************************************)
\* admin_only without its second test: any logged-in user is let through.
admin_only_any_user(c) == ~is_anonymous(current_user(c))

\* The decorator: TRUE when the request is let through to the route function.
admin_only(c) ==
    IF is_anonymous(current_user(c)) THEN FALSE
    ELSE IF current_user(c).id # 1 THEN FALSE
    ELSE TRUE

Forbidden(c, op) ==
    /\ response' = Resp(c, op, "forbidden", "")
    /\ UNCHANGED <<users, posts, comments, session, pending>>

\* Post ids a request may name: those of the table and one more.
PostIds == 1..(MaxPosts + 1)

\* The unique constraint on blogpost.title, checked at commit; `id` is the
\* row being written.
TitleUnique(id, title) == \A p \in posts : p.id # id => p.title # title

\* Rows of comments that refer to a post.
CommentsOf(post_id) == {cm \in comments : cm.post_id = post_id}

show_post(c, method, post_id, form) ==
    /\ pending[c] = None
    /\ LET requested_post == ById(posts, post_id) IN
       IF validate_on_submit(method, CommentFormValid(form))
       THEN IF ~is_authenticated(current_user(c))
            THEN /\ response' = Resp(c, "show_post", "redirect_login", "need to login")
                 /\ UNCHANGED comments
            ELSE IF requested_post = None
            THEN \* requested_post.id raises AttributeError
                 /\ response' = Resp(c, "show_post", "fault", "AttributeError")
                 /\ UNCHANGED comments
            ELSE /\ NextId(comments) <= MaxComments
                 /\ comments' = comments \cup
                      {[id |-> NextId(comments),
                        text |-> sanitize(form.comment),
                        author_id |-> current_user(c).id,
                        post_id |-> requested_post.id]}
                 /\ response' = RedirectToPost(c, "show_post", post_id)
       ELSE IF requested_post = None
            THEN \* post.html is rendered with post=None: a page or a template error
                 /\ \E status \in {"render", "fault"} :
                      response' = Resp(c, "show_post", status, "")
                 /\ UNCHANGED comments
            ELSE /\ response' = Resp(c, "show_post", "render", "")
                 /\ UNCHANGED comments
    /\ UNCHANGED <<users, posts, session, pending>>

add_new_post_body(c, method, form, current_date) ==
    IF validate_on_submit(method, PostFormValid(form))
    THEN LET clean_data == sanitize(form.body)
             new_post == [id |-> NextId(posts),
                          title |-> form.title,
                          subtitle |-> form.subtitle,
                          author_id |-> current_user(c).id,
                          date |-> current_date,
                          body |-> clean_data,
                          img_url |-> form.img_url]
         IN IF TitleUnique(new_post.id, new_post.title)
            THEN /\ NextId(posts) <= MaxPosts
                 /\ posts' = posts \cup {new_post}
                 /\ response' = Resp(c, "add_new_post", "redirect_home", "")
            ELSE /\ response' = Resp(c, "add_new_post", "fault", "IntegrityError")
                 /\ UNCHANGED posts
    ELSE /\ response' = Resp(c, "add_new_post", "render", "")
         /\ UNCHANGED posts

add_new_post(c, method, form, current_date) ==
    /\ pending[c] = None
    /\ IF admin_only(c)
       THEN /\ add_new_post_body(c, method, form, current_date)
            /\ UNCHANGED <<users, comments, session, pending>>
       ELSE Forbidden(c, "add_new_post")

\* An edit that also stamps the row with a new date.
Edited_redated(current_post, form) ==
    [current_post EXCEPT !.title = form.title,
                         !.subtitle = form.subtitle,
                         !.body = sanitize(form.body),
                         !.img_url = form.img_url,
                         !.date = "November 02, 2026"]

\* The row after the assignments of edit_post.
Edited(current_post, form) ==
    [current_post EXCEPT !.title = form.title,
                         !.subtitle = form.subtitle,
                         !.body = sanitize(form.body),
                         !.img_url = form.img_url]

edit_post_body(c, method, post_id, form) ==
    LET current_post == ById(posts, post_id) IN
    IF validate_on_submit(method, PostFormValid(form))
    THEN IF current_post = None
         THEN \* current_post.title = ... raises AttributeError
              /\ response' = Resp(c, "edit_post", "fault", "AttributeError")
              /\ UNCHANGED posts
         ELSE IF TitleUnique(post_id, form.title)
         THEN /\ posts' = (posts \ {current_post}) \cup {Edited(current_post, form)}
              /\ response' = RedirectToPost(c, "edit_post", post_id)
         ELSE /\ response' = Resp(c, "edit_post", "fault", "IntegrityError")
              /\ UNCHANGED posts
    ELSE /\ response' = Resp(c, "edit_post", "render", "")
         /\ UNCHANGED posts

edit_post(c, method, post_id, form) ==
    /\ pending[c] = None
    /\ IF admin_only(c)
       THEN /\ edit_post_body(c, method, post_id, form)
            /\ UNCHANGED <<users, comments, session, pending>>
       ELSE Forbidden(c, "edit_post")

\* comments.post_id is NOT NULL and BlogPost.comments declares no cascade:
\* deleting a post makes the ORM set post_id = NULL on its comments, which
\* the database rejects.
delete_post_body(c, post_id) ==
    LET post == ById(posts, post_id) IN
    IF post = None
    THEN \* db.session.delete(None) raises UnmappedInstanceError
         /\ response' = Resp(c, "delete_post", "fault", "UnmappedInstanceError")
         /\ UNCHANGED <<posts, comments>>
    ELSE IF CommentsOf(post_id) # {}
    THEN /\ response' = Resp(c, "delete_post", "fault", "IntegrityError")
         /\ UNCHANGED <<posts, comments>>
    ELSE /\ posts' = posts \ {post}
         /\ response' = Resp(c, "delete_post", "redirect_home", "")
         /\ UNCHANGED comments

delete_post(c, post_id) ==
    /\ pending[c] = None
    /\ IF admin_only(c)
       THEN /\ delete_post_body(c, post_id)
            /\ UNCHANGED <<users, session, pending>>
       ELSE Forbidden(c, "delete_post")

(***************************************************************************)
(* Specifications                                                          *)
(***************************************************************************)
\* A request is a GET, which carries no form data, or a POST of a form.
Requests(forms, blank) == {<<"GET", blank>>} \cup {<<"POST", f>> : f \in forms}

BlankRegisterForm == [email |-> "", password |-> "", name |-> ""]
BlankLoginForm == [email |-> "", password |-> ""]
BlankPostForm == [title |-> "", subtitle |-> "", img_url |-> "", body |-> Empty]
BlankCommentForm == [comment |-> Empty]

\* Bodies an edit form can carry: fresh input, or the stored body the GET
\* of edit_post pre-filled the form with.
StoredBodies == {p.body : p \in posts}

\* The whole program, driven from one browser.
SiteClients == {"c1"}
SiteRegisterForms == {f \in RegisterForms : f.password = "longenough1" /\ f.name = "Ann"}
SiteLoginForms == {f \in LoginForms : f.password # "short"}
SiteCommentForms == {f \in CommentForms : f.comment \in {<<Script, ParaHi>>, Empty}}

Register ==
    \E c \in SiteClients, f \in SiteRegisterForms : RegisterLookup(c, "POST", f)
Commit == \E c \in SiteClients : RegisterCommit(c)
Login == \E c \in SiteClients, f \in SiteLoginForms : login(c, "POST", f)
Logout == \E c \in SiteClients : logout(c)
ShowPost ==
    \E c \in SiteClients, id \in PostIds,
       r \in Requests(SiteCommentForms, BlankCommentForm) :
        show_post(c, r[1], id, r[2])
AddNewPost ==
    \E c \in SiteClients, d \in Dates,
       r \in Requests(PostForms(RawBodies \cup {Empty}), BlankPostForm) :
        add_new_post(c, r[1], r[2], d)
EditPost ==
    \E c \in SiteClients, id \in PostIds,
       r \in Requests(PostForms(RawBodies \cup StoredBodies), BlankPostForm) :
        edit_post(c, r[1], id, r[2])
DeletePost == \E c \in SiteClients, id \in PostIds : delete_post(c, id)

Next ==
    \/ Register
    \/ Commit
    \/ Login
    \/ Logout
    \/ ShowPost
    \/ AddNewPost
    \/ EditPost
    \/ DeletePost

Spec == Init /\ [][Next]_vars

\* The account subsystem alone: two browsers, every register and login input.
AccountRegister ==
    \E c \in Clients, r \in Requests(RegisterForms, BlankRegisterForm) :
        RegisterLookup(c, r[1], r[2])
AccountLogin ==
    \E c \in Clients, r \in Requests(LoginForms, BlankLoginForm) :
        login(c, r[1], r[2])

AccountCommit == \E c \in Clients : RegisterCommit(c)
AccountLogout == \E c \in Clients : logout(c)

NextAccounts ==
    \/ AccountRegister
    \/ AccountCommit
    \/ AccountLogin
    \/ AccountLogout

SpecAccounts == Init /\ [][NextAccounts]_vars

(***************************************************************************)
(* Properties                                                              *)
(***************************************************************************)
\* The identity of browser c is the registered user with identifier 1.
IsAdmin(c) == session[c] = 1 /\ \E u \in users : u.id = 1

\* The step is the response of route `op` to browser c.
Handled(c, op) ==
    /\ response'.client = c
    /\ response'.op = op
    /\ pending' = pending

PostRoutes == {"add_new_post", "edit_post", "delete_post"}

\* C1: a request to add_new_post, edit_post or delete_post from an identity
\* that is anonymous or whose identifier is not 1 is answered "forbidden"
\* and leaves the blogpost table as it was, whatever post id it names; only
\* the identity with identifier 1 gets any other answer from these routes.
C1_AdminGate ==
    [][\A c \in Clients, op \in PostRoutes :
          Handled(c, op) =>
              /\ ~IsAdmin(c) => response'.status = "forbidden" /\ posts' = posts
              /\ response'.status # "forbidden" => IsAdmin(c)]_vars

\* A logged-in user other than the admin was refused the deletion of a post
\* while posts exist.
C1_Witness ==
    /\ response.op = "delete_post"
    /\ response.status = "forbidden"
    /\ session[response.client] = 2
    /\ posts # {}

\* C2: a comment POST by an anonymous identity stores no row and redirects
\* to login; one by an authenticated identity on an existing post adds
\* exactly one comment, whose author_id is the identity's identifier and
\* whose post_id is the requested post's; and every comment's author_id is
\* the identifier of a registered user.
C2_CommentStep ==
    \A c \in Clients :
        Handled(c, "show_post") =>
            \A id \in PostIds, f \in CommentForms :
                (CommentFormValid(f) /\ show_post(c, "POST", id, f)) =>
                    IF session[c] \notin Ids(users)
                    THEN /\ comments' = comments
                         /\ response'.status = "redirect_login"
                    ELSE id \in Ids(posts) =>
                         \E cm \in comments' :
                             /\ cm \notin comments
                             /\ comments' = comments \cup {cm}
                             /\ cm.author_id = session[c]
                             /\ cm.post_id = id
                             /\ response' = RedirectToPost(c, "show_post", id)

C2_Comments ==
    /\ [](\A cm \in comments : cm.author_id \in Ids(users))
    /\ [][C2_CommentStep]_vars

\* A comment written by the second user is stored.
C2_Witness ==
    /\ response.op = "show_post"
    /\ response.status = "redirect_post"
    /\ \E cm \in comments : cm.author_id = 2 /\ cm.post_id \in Ids(posts)

\* C3 (as claimed): when a register request commits after another request
\* has stored the same e-mail, no second row is stored and the request is
\* answered with the "already signed up" redirect to login, not a fault.
C3_RaceAnswered ==
    [][\A c \in Clients :
          (RegisterCommit(c) /\ \E u \in users : u.email = pending[c].email) =>
              /\ users' = users
              /\ response' = Resp(c, "register", "redirect_login", "already signed up")]_vars

\* The password a user row was registered with.
RegisteredPassword(u) == u.password.digest[2]

\* C4: a valid register POST whose e-mail belongs to a user row is answered
\* with the "already signed up" redirect to login, stores no row, leaves
\* every user row (password and name included) and every session as they
\* were; and no two user rows ever share an e-mail.
C4_RegisterStep ==
    \A c \in Clients, f \in RegisterForms :
        (/\ Handled(c, "register")
         /\ RegisterFormValid(f)
         /\ \E u \in users : u.email = f.email
         /\ RegisterLookup(c, "POST", f)) =>
            /\ response' = Resp(c, "register", "redirect_login", "already signed up")
            /\ users' = users
            /\ session' = session

C4_AlreadyRegistered ==
    /\ [](\A u, v \in users : u.email = v.email => u = v)
    /\ [][C4_RegisterStep]_vars

\* A logged-in browser registered an e-mail that was taken, with other
\* credentials than the stored ones, and was sent to login.
C4_Witness ==
    /\ response.op = "register"
    /\ response.flash = "already signed up"
    /\ session[response.client] # None.id
    /\ Cardinality(users) = 2
    /\ \A u \in users : RegisteredPassword(u) = "longenough1" /\ u.name = "Ann"

\* What a valid login POST is answered with.
C7_LoginStep ==
    \A c \in Clients, f \in LoginForms :
        (Handled(c, "login") /\ LoginFormValid(f) /\ login(c, "POST", f)) =>
            IF \A u \in users : u.email # f.email
            THEN /\ response' = Resp(c, "login", "redirect_login", "email does not exist")
                 /\ session' = session
            ELSE \E u \in users :
                 /\ u.email = f.email
                 /\ IF RegisteredPassword(u) = f.password
                    THEN /\ response' = Resp(c, "login", "redirect_home", "")
                         /\ session' = [session EXCEPT ![c] = u.id]
                         /\ current_user(c)' = u
                    ELSE /\ response' = Resp(c, "login", "redirect_login", "password incorrect")
                         /\ session' = session

\* C7 (as claimed): the identity a session resolves to, once established,
\* changes only by logout.
C7_UntilLogout ==
    [][\A c \in Clients :
          (session[c] # None.id /\ session'[c] # session[c]) =>
              (response'.client = c /\ response'.op = "logout")]_vars

\* C7 (amended): a valid login POST has three outcomes: unknown e-mail and
\* wrong password (each with its own message, the session left as it was),
\* and success, after which the session resolves to exactly that user; the
\* identity of a session changes only by a logout, a successful login or a
\* successful registration from the same browser.
C7_LoginSession ==
    /\ [][C7_LoginStep]_vars
    /\ [][\A c \in Clients :
            session'[c] # session[c] =>
                /\ response'.client = c
                /\ response'.status = "redirect_home"
                /\ response'.op \in {"logout", "login", "register"}
                /\ response'.op = "logout" <=> session'[c] = None.id]_vars

\* A browser logged in as one user gave a wrong password for the other
\* account and is still the first user.
C7_Witness ==
    /\ response.op = "login"
    /\ response.flash = "password incorrect"
    /\ session[response.client] = 2
    /\ session[CHOOSE c \in Clients : c # response.client] = 1

\* C5 (as claimed): a valid add_new_post POST by the admin whose title is
\* the title of a stored post is not answered with a fault, stores no post
\* and leaves the stored posts as they were; no two posts share a title.
C5_TitleStep ==
    \A c \in Clients, d \in Dates, f \in PostForms(RawBodies) :
        (/\ Handled(c, "add_new_post")
         /\ IsAdmin(c)
         /\ \E p \in posts : p.title = f.title
         /\ add_new_post(c, "POST", f, d)) =>
            /\ response'.status # "fault"
            /\ posts' = posts

C5_DuplicateTitle ==
    /\ [](\A p, q \in posts : p.title = q.title => p = q)
    /\ [][C5_TitleStep]_vars

\* C6 (as claimed): every comment's post_id is the id of a stored post, and
\* delete_post by the admin on a post that has comments removes the post
\* and its comments and does not fail.
C6_DeleteStep ==
    \A c \in Clients, id \in PostIds :
        (/\ Handled(c, "delete_post")
         /\ IsAdmin(c)
         /\ id \in Ids(posts)
         /\ \E cm \in comments : cm.post_id = id
         /\ delete_post(c, id)) =>
            /\ response'.status # "fault"
            /\ posts' = {p \in posts : p.id # id}
            /\ comments' = {cm \in comments : cm.post_id # id}

C6_Cascade ==
    /\ [](\A cm \in comments : cm.post_id \in Ids(posts))
    /\ [][C6_DeleteStep]_vars

\* C8: an edit_post that succeeds on post id changes at most that post's
\* title, subtitle, body and img_url: its id, author_id and date stay, as
\* does every other post, every user and every comment.
C8_EditFrame ==
    [][\A c \in Clients :
          (Handled(c, "edit_post") /\ response'.status = "redirect_post") =>
              LET id == response'.post_id IN
              /\ users' = users
              /\ comments' = comments
              /\ Ids(posts') = Ids(posts)
              /\ \A p \in posts : p.id # id => p \in posts'
              /\ \A p \in posts, q \in posts' :
                    (p.id = id /\ q.id = id) =>
                        /\ q.author_id = p.author_id
                        /\ q.date = p.date]_vars

\* An edited post carries a date other than the latest one and a body other
\* than the one of the other post.
C8_Witness ==
    /\ response.op = "edit_post"
    /\ response.status = "redirect_post"
    /\ Cardinality(posts) = 2
    /\ \E p \in posts :
          /\ p.id = response.post_id
          /\ p.date = "November 01, 2026"
          /\ p.body = <<Link>>
          /\ \E cm \in comments : cm.post_id = p.id

\* C9 (as claimed): show_post (a GET, or a comment POST by a logged-in
\* user) and the admin's edit_post and delete_post answer "not_found" for a
\* post id that no stored post has, and change no table.
C9_NotFound ==
    [][\A c \in Clients, id \in PostIds \ Ids(posts) :
          (\/ /\ Handled(c, "show_post")
              /\ \E r \in Requests(CommentForms, BlankCommentForm) :
                    /\ show_post(c, r[1], id, r[2])
                    /\ r[1] = "GET" \/ session[c] \in Ids(users)
           \/ /\ Handled(c, "edit_post")
              /\ IsAdmin(c)
              /\ \E r \in Requests(PostForms(RawBodies), BlankPostForm) :
                    edit_post(c, r[1], id, r[2])
           \/ /\ Handled(c, "delete_post")
              /\ IsAdmin(c)
              /\ delete_post(c, id)) =>
              /\ response'.status = "not_found"
              /\ UNCHANGED <<users, posts, comments>>]_vars

\* Sanitized rich text: only allowed tags, only their allowed attributes,
\* no empty element of a tag that may not be empty.
Clean(html) ==
    \A i \in 1..Len(html) :
        /\ html[i].tag \in Tags
        /\ html[i].attrs \subseteq Attributes(html[i].tag)
        /\ html[i].content \/ html[i].tag \in EmptyTags

\* An edit_post POST that carries the stored body of the post leaves it.
C10_ResubmitStep ==
    \A c \in Clients, f \in PostForms(StoredBodies) :
        (/\ Handled(c, "edit_post")
         /\ response'.status = "redirect_post"
         /\ \E p \in posts : p.id = response'.post_id /\ p.body = f.body
         /\ edit_post(c, "POST", response'.post_id, f)) =>
            \A q \in posts' : q.id = response'.post_id => q.body = f.body

\* C10: every stored post body and comment text is sanitized text, the
\* sanitizer leaves its own output as it is, and an edit that resubmits the
\* stored body leaves the stored body unchanged.
C10_Sanitized ==
    /\ [](/\ \A p \in posts : Clean(p.body) /\ sanitize(p.body) = p.body
          /\ \A cm \in comments : Clean(cm.text) /\ sanitize(cm.text) = cm.text
          /\ \A b \in RawBodies : sanitize(sanitize(b)) = sanitize(b))
    /\ [][C10_ResubmitStep]_vars

\* Two posts whose submitted bodies each lost an element to the sanitizer,
\* one of them edited, and a comment that lost its script element.
C10_Witness ==
    /\ response.op = "edit_post"
    /\ response.status = "redirect_post"
    /\ {p.body : p \in posts} = {<<ParaHi>>, <<Link>>}
    /\ \E cm \in comments : cm.text = <<ParaHi>>

\* C11: every post's author_id is 1 and is the id of a stored user, so no
\* post exists before the user with id 1 has registered; the first account
\* registered gets id 1; and user rows are never deleted or changed, so the
\* row with id 1 stays the same whatever is registered, logged in or
\* logged out later.
C11_UsersKept ==
    /\ \A u \in users : u \in users'
    /\ \A v \in users' : v \notin users => v.id \notin Ids(users)

C11_AdminAuthor ==
    /\ [](/\ \A p \in posts : p.author_id = 1 /\ p.author_id \in Ids(users)
          /\ users # {} => 1 \in Ids(users)
          /\ \A u, v \in users : u.id = v.id => u = v)
    /\ [][C11_UsersKept]_vars

\* A post of user 1 is stored while the browser is logged in as the second
\* user, registered after the post's author.
C11_Witness ==
    /\ posts # {}
    /\ Cardinality(users) = 2
    /\ session["c1"] = 2
    /\ response.op = "login"
    /\ response.status = "redirect_home"

====
